---- MODULE Spec2Model ----
(***************************************************************************)
(* Model of the typespec-tools emitters (emitter-typescript,               *)
(* emitter-express, emitter-fetch-client, emitter-zod).                    *)
(*                                                                         *)
(* Spec      : the namespace scope tree built by                           *)
(*             TypescriptEmitter.declarationContext while declarations are *)
(*             emitted, followed by the namespace/operation aggregation of *)
(*             ExpressEmitter.sourceFile / FetchClientEmitter.sourceFile.  *)
(* SpecPath  : the URL path template of an operation as rendered by the   *)
(*             express registrar and by the fetch-client invoker.          *)
(* SpecArgs  : the argument shape the fetch-client emitter generates for   *)
(*             an operation, from the classification of its parameters.    *)
(* SpecWalk  : the type walk of one emission run over a graph of models    *)
(*             and scalars, with the declaration cache and the per-kind    *)
(*             handlers of TypescriptEmitter and ZodEmitter.               *)
(* SpecReturn: the response type an operation's return type is rendered    *)
(*             to by the express and the fetch-client emitter.             *)
(* SpecTemplate: the declarations that uses of template instantiations     *)
(*             resolve to, and their names.                                *)
(* SpecFiles : the import table filled by TypescriptEmitter.reference and  *)
(*             the text TypescriptEmitter.sourceFile assembles, for one    *)
(*             run and for a second run of a new emitter.                  *)
(* SpecRender: sourceFile of the express and fetch-client emitters called  *)
(*             twice on the same emitter.                                  *)
(* SpecOptions: the name of the file a run writes, from the emitter        *)
(*             options.                                                    *)
(* SpecEnum  : the members of an enum as written by enumMember.            *)
(* SpecClient: the headers of a request issued by the generated fetch      *)
(*             client.                                                     *)
(***************************************************************************)
EXTENDS Integers, Sequences, FiniteSets, TLC

VARIABLES
    backend,          \* which emitter class runs: "typescript", "zod", "express" or "fetch-client"
    scopes,           \* the Scope objects in creation order; scopes[1] is sourceFile.globalScope
    nsByName,         \* TypescriptEmitter.nsByName: namespace name -> index into scopes (0: no entry)
    httpOperations,   \* the HTTP operations listHttpOperationsIn returns, in order
    emitted,          \* number of declarations emitted so far by emitProgram
    lastContext,      \* the last declarationContext call: the namespace asked for and the scope returned
    phase,            \* "emit" while emitProgram runs, then "written" (sourceFile returned the file)
                      \* or "failed" (sourceFile threw)
    output,           \* what sourceFile assembled: groups, builder functions, root registry
    program,          \* the type graph under emission: model -> [baseModel, properties]
    typeToEmitEntity, \* the declaration cache: type -> "none" | "circular" | "declaration" | "rawCode"
    stack,            \* the emitType calls in progress, innermost last
    queue,            \* the top-level declarations emitProgram has not visited yet
    status,           \* "running", "done", or "aborted" when a handler threw
    operation,        \* the HTTP operation being rendered: path template and parameters
    rendered,         \* what the backend generated for the operation
    imports,          \* SourceFile.imports of the output file: entries [path, names] in insertion order
    references,       \* the cross-file references resolved so far, in call order
    options           \* the emitter options of the run: option name -> value

scopeVars == <<nsByName, httpOperations, emitted, lastContext, phase, output>>
walkVars  == <<program, typeToEmitEntity, stack, queue, status>>
opVars    == <<operation, rendered>>
fileVars  == <<imports, references, options>>
vars == <<backend, scopes, nsByName, httpOperations, emitted, lastContext, phase, output,
          program, typeToEmitEntity, stack, queue, status, operation, rendered,
          imports, references, options>>

----------------------------------------------------------------------------
(* Emitter options.                                                        *)

\* A run whose configuration gives no option to the emitter.
NoOptions == <<>>

\* Values given to the option "output-file".
FileNames == {"output.ts", "client.ts", "routes.ts"}

\* The options of the runs explored: none, or "output-file" with a name.
OptionSets == {NoOptions} \cup { [o \in {"output-file"} |-> f] : f \in FileNames }

----------------------------------------------------------------------------
(* Inputs: the namespaces of the program under emission.                   *)

\* Namespace full chains of the programs explored. <<>> is the global
\* namespace (name ""); the others follow the test programs (PetStore.Pets,
\* PetStore.Animals, Pets.ByType.ByAge) plus a second ByType under Animals.
NamespaceChains ==
    { <<>>,
      <<"PetStore">>,
      <<"PetStore", "Pets">>,
      <<"PetStore", "Animals">>,
      <<"PetStore", "Pets", "ByType">>,
      <<"PetStore", "Animals", "ByType">>,
      <<"PetStore", "Pets", "ByType", "ByAge">> }

NamespaceNames == {"", "PetStore", "Pets", "Animals", "ByType", "ByAge"}

\* A namespace outside the service that holds models only: a top-level
\* namespace Pets beside PetStore.
LibraryNamespaces == { <<"Pets">> }

\* The namespace carrying @service: httpService.namespace.
ServiceNamespace == <<"PetStore">>

\* operation.namespace of an operation declared in an interface.
NoNamespace == <<"<undefined>">>

DeclKinds == {"Model", "Operation", "Interface"}

\* Number of declarations emitProgram visits in one run.
MaxDecls == 3

GlobalScope == 1

----------------------------------------------------------------------------
(* Helpers over sequences.                                                 *)

Last(s) == s[Len(s)]

RECURSIVE SeqToSet(_)
SeqToSet(s) == IF s = <<>> THEN {} ELSE {Head(s)} \cup SeqToSet(Tail(s))

\* Array.prototype.join for an array of names: the names with the separator
\* between them, as a sequence of tokens ("" separators leave the names).
RECURSIVE Join(_, _)
Join(arr, sep) ==
    IF arr = <<>> THEN <<>>
    ELSE IF Len(arr) = 1 THEN <<arr[1]>>
    ELSE IF sep = "" THEN <<arr[1]>> \o Join(Tail(arr), sep)
    ELSE <<arr[1], sep>> \o Join(Tail(arr), sep)

\* namespace.name
NamespaceName(ns) == IF ns = <<>> THEN "" ELSE Last(ns)

\* getNamespaceFullName(ns).split("."): the global namespace has the full
\* name "", and "".split(".") is [""].
FullNameSplit(ns) == IF ns = <<>> THEN <<"">> ELSE ns

----------------------------------------------------------------------------
(* The scope tree.                                                         *)

\* AssetEmitter.createScope({}, name, parentScope): a new Scope appended to
\* its parent's childScopes.
CreateScope(scs, name, parentScope) ==
    Append(scs, [name |-> name, parent |-> parentScope, declarations |-> <<>>])

\* scope.childScopes, in creation order.
RECURSIVE ChildScopesFrom(_, _, _)
ChildScopesFrom(scs, s, i) ==
    IF i > Len(scs) THEN <<>>
    ELSE IF scs[i].parent = s THEN <<i>> \o ChildScopesFrom(scs, s, i + 1)
    ELSE ChildScopesFrom(scs, s, i + 1)

ChildScopes(scs, s) == ChildScopesFrom(scs, s, 1)

\* The names of the scopes from s up to (excluding) the global scope,
\* outermost first.
RECURSIVE ScopePath(_, _)
ScopePath(scs, s) ==
    IF s = 0 \/ s = GlobalScope THEN <<>>
    ELSE Append(ScopePath(scs, scs[s].parent), scs[s].name)

\* The loop without the cache lookup of lines 101-105: every level of the
\* chain gets a new scope.
RECURSIVE ChainLoopNoReuse(_, _)
ChainLoopNoReuse(namespaceChain, st) ==
    IF namespaceChain = <<>> THEN st
    ELSE LET ns     == Head(namespaceChain)
             parent == IF st.parentScope # 0 THEN st.parentScope ELSE GlobalScope
             scs    == CreateScope(st.scopes, ns, parent)
             new    == Len(scs)
         IN ChainLoopNoReuse(Tail(namespaceChain),
                             [scopes      |-> scs,
                              nsByName    |-> [st.nsByName EXCEPT ![ns] = new],
                              parentScope |-> new,
                              nsScope     |-> new])

\* The while loop of declarationContext over namespaceChain.
\* st = [scopes, nsByName, parentScope, nsScope]; 0 stands for undefined.
RECURSIVE ChainLoop(_, _)
ChainLoop(namespaceChain, st) ==
    IF namespaceChain = <<>> THEN st
    ELSE LET ns == Head(namespaceChain) IN
         IF ns = "" THEN st
         ELSE IF st.nsByName[ns] # 0
              THEN ChainLoop(Tail(namespaceChain),
                             [st EXCEPT !.nsScope = st.nsByName[ns],
                                        !.parentScope = st.nsByName[ns]])
              ELSE LET parent == IF st.parentScope # 0 THEN st.parentScope ELSE GlobalScope
                       scs    == CreateScope(st.scopes, ns, parent)
                       new    == Len(scs)
                   IN ChainLoop(Tail(namespaceChain),
                                [scopes      |-> scs,
                                 nsByName    |-> [st.nsByName EXCEPT ![ns] = new],
                                 parentScope |-> new,
                                 nsScope     |-> new])

\* TypescriptEmitter.declarationContext(decl) for a declaration whose
\* namespace has the chain ns. Result: the new scopes and cache, and the
\* scope of the returned Context (GlobalScope when the Context is {} and the
\* program context's scope stays in force).
DeclarationContext(scs, cache, ns) ==
    LET name == NamespaceName(ns) IN
    IF name = ""
    THEN [scopes |-> scs, nsByName |-> cache, scope |-> GlobalScope]
    ELSE IF cache[name] # 0
         THEN [scopes |-> scs, nsByName |-> cache, scope |-> cache[name]]
         ELSE LET st == ChainLoop(FullNameSplit(ns),
                                  [scopes |-> scs, nsByName |-> cache,
                                   parentScope |-> 0, nsScope |-> 0])
              IN [scopes |-> st.scopes, nsByName |-> st.nsByName, scope |-> st.nsScope]

\* AssetEmitter.result.declaration(name, code) completed in the scope of the
\* current context: the Declaration is pushed onto scope.declarations.
AddDeclaration(scs, s, decl) ==
    [scs EXCEPT ![s].declarations = Append(@, decl)]

----------------------------------------------------------------------------
(* Path templates and their rewriting by String.prototype.replace.          *)

\* The characters matched by \w that occur in the parameter names used.
WordChars == {"a", "b", "c", "p"}

\* The path template text of a sequence of segments: /p for a literal,
\* /{name} for a placeholder.
RECURSIVE PathText(_)
PathText(segs) ==
    IF segs = <<>> THEN <<>>
    ELSE (IF Head(segs).kind = "literal" THEN Head(segs).text
          ELSE <<"/", "{">> \o Head(segs).text \o <<"}">>) \o PathText(Tail(segs))

\* The end of the run of \w characters that starts at position i.
RECURSIVE WordEnd(_, _)
WordEnd(str, i) ==
    IF i <= Len(str) /\ str[i] \in WordChars THEN WordEnd(str, i + 1) ELSE i

\* Whether /\{(\w+)\}/ matches at position i, and where the match ends
\* (0: no match at i).
MatchEnd(str, i) ==
    IF str[i] # "{" THEN 0
    ELSE LET j == WordEnd(str, i + 1) IN
         IF j > i + 1 /\ j <= Len(str) /\ str[j] = "}" THEN j ELSE 0

\* The position of the leftmost match of /\{(\w+)\}/ at or after i (0: none).
RECURSIVE FirstMatch(_, _)
FirstMatch(str, i) ==
    IF i > Len(str) THEN 0
    ELSE IF MatchEnd(str, i) # 0 THEN i
    ELSE FirstMatch(str, i + 1)

\* String.prototype.replace with the pattern /\{(\w+)\}/, which has no g
\* flag: the leftmost match is replaced by before \o $1 \o after, the rest
\* of the string is kept.
ReplacePlaceholder(str, before, after) ==
    LET m == FirstMatch(str, 1) IN
    IF m = 0 THEN str
    ELSE LET e == MatchEnd(str, m) IN
         SubSeq(str, 1, m - 1) \o before \o SubSeq(str, m + 1, e - 1) \o after
             \o SubSeq(str, e + 1, Len(str))

\* ExpressEmitter.sourceFile: operation.path.replace(/\{(\w+)\}/, ":$1")
ExpressPath(path) == ReplacePlaceholder(path, <<":">>, <<>>)

\* FetchClientEmitter.sourceFile: path.replace(/\{(\w+)\}/, "${args.$1}"),
\* placed in a template literal.
ClientPathTemplate(path) == ReplacePlaceholder(path, <<"${args.">>, <<"}">>)

\* Evaluation of the generated template literal: every ${args.name} is
\* substituted by the value of args.name, every other character is kept.
RECURSIVE EvalTemplate(_, _)
EvalTemplate(tpl, args) ==
    IF tpl = <<>> THEN <<>>
    ELSE IF Head(tpl) = "${args."
         THEN LET e == WordEnd(tpl, 2) IN
              args[SubSeq(tpl, 2, e - 1)] \o EvalTemplate(SubSeq(tpl, e + 1, Len(tpl)), args)
         ELSE <<Head(tpl)>> \o EvalTemplate(Tail(tpl), args)

----------------------------------------------------------------------------
(* emitProgram: one declaration of the program is emitted per step.        *)

\* listHttpOperationsIn(program, httpService.namespace) lists the operations
\* of the service namespace and of the namespaces and interfaces below it.
InService(ns) ==
    /\ Len(ns) >= Len(ServiceNamespace)
    /\ SubSeq(ns, 1, Len(ServiceNamespace)) = ServiceNamespace

\* The @route of each namespace of the programs explored, as a path segment
\* ("" for none): /p on Pets and Animals, /{a} on ByType, /{bc} on ByAge.
NamespaceRoute ==
    [n \in NamespaceNames |->
        IF n \in {"Pets", "Animals"} THEN [kind |-> "literal", text |-> <<"/", "p">>]
        ELSE IF n = "ByType" THEN [kind |-> "param", text |-> <<"a">>]
        ELSE IF n = "ByAge" THEN [kind |-> "param", text |-> <<"b", "c">>]
        ELSE [kind |-> "none", text |-> <<>>]]

\* The path template of an operation declared in namespace ns: the routes
\* of the namespaces of its chain, outermost first.
RECURSIVE RouteTemplate(_)
RouteTemplate(ns) ==
    IF ns = <<>> THEN <<>>
    ELSE (IF NamespaceRoute[Head(ns)].kind = "none" THEN <<>>
          ELSE <<NamespaceRoute[Head(ns)]>>) \o RouteTemplate(Tail(ns))

\* The verb of the operation emitted as the n-th declaration.
VerbOf(n) == IF n % 2 = 1 THEN "get" ELSE "post"

\* The HttpOperation listed for an operation: its name, operation.namespace,
\* verb and path.
HttpOperation(n, ns, opNamespace) ==
    [name      |-> n,
     namespace |-> opNamespace,
     verb      |-> VerbOf(n),
     template  |-> RouteTemplate(ns),
     path      |-> PathText(RouteTemplate(ns))]

NoOutput == [groups |-> <<>>, handlerFunctions |-> <<>>, root |-> <<>>]

Init ==
    /\ backend \in {"express", "fetch-client"}
    /\ scopes = <<[name |-> "", parent |-> 0, declarations |-> <<>>]>>
    /\ nsByName = [n \in NamespaceNames |-> 0]
    /\ httpOperations = <<>>
    /\ emitted = 0
    /\ lastContext = [namespace |-> NoNamespace, cached |-> 0, scope |-> 0, created |-> 0]
    /\ phase = "emit"
    /\ output = NoOutput
    /\ program = <<>>
    /\ typeToEmitEntity = <<>>
    /\ stack = <<>>
    /\ queue = {}
    /\ status = "idle"
    /\ operation = <<>>
    /\ rendered = <<>>
    /\ imports = <<>>
    /\ references = <<>>
    /\ options = NoOptions

\* A model, an operation or an interface (holding one operation) declared in
\* namespace ns is emitted: its xxxDeclarationContext is declarationContext,
\* and the finished Declaration lands in the returned scope.
EmitDeclaration(kind, ns) ==
    /\ phase = "emit"
    /\ emitted < MaxDecls
    /\ LET ctx  == DeclarationContext(scopes, nsByName, ns)
           decl == [name |-> emitted + 1, kind |-> kind, namespace |-> ns]
       IN /\ scopes' = AddDeclaration(ctx.scopes, ctx.scope, decl)
          /\ nsByName' = ctx.nsByName
          /\ lastContext' = [namespace |-> ns,
                             cached    |-> nsByName[NamespaceName(ns)],
                             scope     |-> ctx.scope,
                             created   |-> Len(ctx.scopes) - Len(scopes)]
    /\ httpOperations' =
          IF kind = "Operation" /\ InService(ns)
          THEN Append(httpOperations, HttpOperation(emitted + 1, ns, ns))
          ELSE IF kind = "Interface" /\ InService(ns)
          THEN Append(httpOperations, HttpOperation(emitted + 1, ns, NoNamespace))
          ELSE httpOperations
    /\ emitted' = emitted + 1
    /\ UNCHANGED <<backend, phase, output>>
    /\ UNCHANGED walkVars
    /\ UNCHANGED opVars
    /\ UNCHANGED fileVars

----------------------------------------------------------------------------
(* sourceFile: the namespace/operation aggregation of the express and      *)
(* fetch-client emitters.                                                  *)

\* "Handlers" in ExpressEmitter, "Client" in FetchClientEmitter.
RegistryWord(b) == IF b = "express" THEN "Handlers" ELSE "Client"

\* const namespace = operation.namespace?.name ?? httpService.namespace.name
GroupKey(op) ==
    IF op.namespace = NoNamespace THEN NamespaceName(ServiceNamespace)
    ELSE NamespaceName(op.namespace)

\* const namespaceChain = operation.namespace
\*     ? getNamespaceFullName(operation.namespace).split(".") : []
OperationChain(op) ==
    IF op.namespace = NoNamespace THEN <<>> ELSE FullNameSplit(op.namespace)

\* Map.get on the insertion-ordered declarationsByNamespace: the index of the
\* entry with this key, 0 when there is none.
RECURSIVE GroupIndexFrom(_, _, _)
GroupIndexFrom(groups, key, i) ==
    IF i > Len(groups) THEN 0
    ELSE IF groups[i].namespace = key THEN i
    ELSE GroupIndexFrom(groups, key, i + 1)

GroupIndex(groups, key) == GroupIndexFrom(groups, key, 1)

\* The first loop of sourceFile: every HTTP operation is added to the entry
\* of declarationsByNamespace found under its namespace's name.
RECURSIVE GroupOperations(_, _, _)
GroupOperations(ops, groups, b) ==
    IF ops = <<>> THEN groups
    ELSE LET op             == Head(ops)
             namespace      == GroupKey(op)
             namespaceChain == OperationChain(op)
             idx            == GroupIndex(groups, namespace)
             declarations   ==
                 IF idx # 0 THEN groups[idx]
                 ELSE [namespace             |-> namespace,
                       namespaceChain        |-> namespaceChain,
                       operationNames        |-> <<>>,
                       routeHandlerFunctions |-> <<>>]
             updated ==
                 [declarations EXCEPT
                    !.operationNames = Append(@, op.name),
                    !.routeHandlerFunctions =
                        Append(@, [name |-> op.name,
                                   type |-> Join(namespaceChain, ".")
                                              \o <<".", RegistryWord(b)>>,
                                   verb |-> op.verb,
                                   path |-> IF b = "express" THEN ExpressPath(op.path)
                                            ELSE ClientPathTemplate(op.path)])]
         IN GroupOperations(Tail(ops),
                            IF idx # 0 THEN [groups EXCEPT ![idx] = updated]
                            ELSE Append(groups, updated),
                            b)

\* c.name for every child scope c of nsScope.
ChildNames(scs, s) == [i \in DOMAIN ChildScopes(scs, s) |-> scs[ChildScopes(scs, s)[i]].name]

\* The second loop of sourceFile, one group: the registry interface is pushed
\* onto the namespace scope found under the group's key (when there is one),
\* and the builder function of the group is produced.
RegistryInterface(group, children, b) ==
    [name     |-> "",
     kind     |-> RegistryWord(b),
     entries  |-> group.operationNames,
     children |-> children]

HandlerFunction(group, hasScope, children, b) ==
    [name     |-> <<"create">> \o Join(group.namespaceChain, "") \o <<RegistryWord(b)>>,
     returns  |-> Join(group.namespaceChain, ".") \o <<".", RegistryWord(b)>>,
     body     |-> group.routeHandlerFunctions,
     entries  |-> group.operationNames,
     hasScope |-> hasScope,
     children |-> [i \in DOMAIN children |->
                     [field   |-> children[i],
                      builder |-> <<"create">> \o Join(group.namespaceChain, "")
                                     \o <<children[i], RegistryWord(b)>>]]]

RECURSIVE BuildRegistries(_, _, _, _, _)
BuildRegistries(groups, i, scs, fns, b) ==
    IF i > Len(groups) THEN [scopes |-> scs, handlerFunctions |-> fns]
    ELSE LET group    == groups[i]
             nsScope  == nsByName[group.namespace]
             children == IF nsScope = 0 THEN <<>> ELSE ChildNames(scs, nsScope)
             scs2     == IF nsScope = 0 THEN scs
                         ELSE AddDeclaration(scs, nsScope,
                                             RegistryInterface(group, children, b))
         IN BuildRegistries(groups, i + 1, scs2,
                            Append(fns, HandlerFunction(group, nsScope # 0, children, b)),
                            b)

\* Whether the text a.b.Handlers (a.b.Client) built from namespaceChain is a
\* TypeScript type: with an empty chain, or the chain [""] of the global
\* namespace, the text is ".Handlers", which is none.
IsQualifiedName(namespaceChain) ==
    /\ namespaceChain # <<>>
    /\ \A i \in DOMAIN namespaceChain : namespaceChain[i] # ""

\* prettier.format(contents, {parser: "typescript"}) returns the formatted
\* text when contents parses and throws a SyntaxError when it does not.
PrettierFormats(groups) ==
    \A i \in DOMAIN groups : IsQualifiedName(groups[i].namespaceChain)

\* TypedRouter / TypedClient and createTypedRouter / createTypedClient: one
\* field per entry of declarationsByNamespace.
RootRegistry(groups, b) ==
    [i \in DOMAIN groups |->
        [field   |-> Join(groups[i].namespaceChain, ""),
         type    |-> Join(groups[i].namespaceChain, ".") \o <<".", RegistryWord(b)>>,
         builder |-> <<"create">> \o Join(groups[i].namespaceChain, "")
                        \o <<RegistryWord(b)>>]]

SourceFile ==
    /\ phase = "emit"
    /\ LET groups == GroupOperations(httpOperations, <<>>, backend)
           built  == BuildRegistries(groups, 1, scopes, <<>>, backend)
       IN /\ scopes' = built.scopes
          /\ output' = [groups           |-> groups,
                        handlerFunctions |-> built.handlerFunctions,
                        root             |-> RootRegistry(groups, backend)]
          /\ phase' = IF PrettierFormats(groups) THEN "written" ELSE "failed"
    /\ UNCHANGED <<backend, nsByName, httpOperations, emitted, lastContext>>
    /\ UNCHANGED walkVars
    /\ UNCHANGED opVars
    /\ UNCHANGED fileVars

Next ==
    \/ \E kind \in DeclKinds, ns \in NamespaceChains : EmitDeclaration(kind, ns)
    \/ \E ns \in LibraryNamespaces : EmitDeclaration("Model", ns)
    \/ SourceFile

Spec == Init /\ [][Next]_vars

\* The text a call of sourceFile returns, as what it is assembled from: the
\* scope tree written by emitNamespaces(sourceFile.globalScope), the builder
\* functions and the root registry.
SourceFileContents(scs, fns, root) ==
    [namespaces |-> scs, handlerFunctions |-> fns, root |-> root]

\* sourceFile is called a second time for the same source file of the same
\* emitter (emitSourceFile, or a second writeOutput): declarationsByNamespace
\* is a new Map, nsByName and the scopes are those the first call left.
SourceFileAgain ==
    /\ phase = "written"
    /\ LET groups == GroupOperations(httpOperations, <<>>, backend)
           built  == BuildRegistries(groups, 1, scopes, <<>>, backend)
       IN /\ scopes' = built.scopes
          /\ output' = [first |-> SourceFileContents(scopes, output.handlerFunctions,
                                                     output.root),
                        again |-> SourceFileContents(built.scopes, built.handlerFunctions,
                                                     RootRegistry(groups, backend))]
    /\ phase' = "again"
    /\ UNCHANGED <<backend, nsByName, httpOperations, emitted, lastContext>>
    /\ UNCHANGED walkVars
    /\ UNCHANGED opVars
    /\ UNCHANGED fileVars

\* The namespaces of the programs rendered twice.
RenderNamespaces == { <<"PetStore">>, <<"PetStore", "Pets">> }

NextRender ==
    \/ \E kind \in {"Model", "Operation"}, ns \in RenderNamespaces : EmitDeclaration(kind, ns)
    \/ SourceFile
    \/ SourceFileAgain

SpecRender == Init /\ [][NextRender]_vars

----------------------------------------------------------------------------
(* The type walk: emitProgram over a graph of models and scalars.          *)

Models == {"Foo", "Baz"}

\* scalar name -> name of its baseScalar ("" when it has none), as in the
\* TypeSpec standard library: float extends numeric, numeric has no base.
BaseScalar == [string |-> "", float |-> "numeric", numeric |-> ""]

Scalars == DOMAIN BaseScalar

\* The types a model property may have.
PropertyTypes == Models \cup {"string", "float"}

\* Largest number of properties of a model.
MaxProps == 2

PropertyLists == UNION {[1..n -> PropertyTypes] : n \in 0..MaxProps}

\* intrinsicNameToTSType of emitter-typescript.
intrinsicNameToTSType ==
    [string |-> "string", int32 |-> "number", int16 |-> "number",
     float16 |-> "number", float32 |-> "number", int64 |-> "bigint",
     boolean |-> "boolean", unknown |-> "unknown", null |-> "null",
     never |-> "never", void |-> "void"]

\* intrinsicNameToTSType of emitter-zod.
intrinsicNameToZodType ==
    [string |-> "z.string()", int32 |-> "z.number()", int16 |-> "z.number()",
     float16 |-> "z.number()", float32 |-> "z.number()", int64 |-> "z.bigint()",
     boolean |-> "z.boolean()", unknown |-> "z.unknown()", null |-> "z.null()",
     never |-> "z.never()", void |-> "z.void()"]

RawCode(c)  == [kind |-> "rawCode", value |-> c]

\* A reference that carries the content of the target instead of its name.
InlinedContent(t) == [kind |-> "rawCode", value |-> t]

\* TypescriptEmitter.reference / ZodEmitter.reference: the usage site gets
\* the name of the target Declaration.
Reference(t) == [kind |-> "reference", value |-> t]
Thrown(msg) == [kind |-> "throw", value |-> msg]

\* TypescriptEmitter.scalarDeclaration, first branch: an unmapped scalar with
\* a base scalar becomes a declaration whose body references the base.
TsScalarIsDeclaration(scalarName) ==
    scalarName \notin DOMAIN intrinsicNameToTSType /\ BaseScalar[scalarName] # ""

\* TypescriptEmitter.scalarDeclaration, the branches that return raw code.
TsScalarRawCode(scalarName) ==
    IF scalarName \notin DOMAIN intrinsicNameToTSType
    THEN RawCode("any")
    ELSE RawCode(intrinsicNameToTSType[scalarName])

\* ZodEmitter.scalarDeclaration: delegates to the base scalar, throws when
\* there is neither a mapping nor a base.
RECURSIVE ZodScalarDeclaration(_)
ZodScalarDeclaration(scalarName) ==
    IF scalarName \notin DOMAIN intrinsicNameToZodType /\ BaseScalar[scalarName] # ""
    THEN ZodScalarDeclaration(BaseScalar[scalarName])
    ELSE IF scalarName \notin DOMAIN intrinsicNameToZodType
    THEN Thrown("Unknown scalar type")
    ELSE RawCode(intrinsicNameToZodType[scalarName])

\* Whether the handler of type t returns result.declaration (a named
\* Declaration) rather than raw code.
IsDeclaration(b, t) ==
    \/ t \in Models
    \/ b # "zod" /\ t \in Scalars /\ TsScalarIsDeclaration(t)

\* What a scalar that is not a declaration renders to.
ScalarInline(b, t) ==
    IF b # "zod" THEN TsScalarRawCode(t) ELSE ZodScalarDeclaration(t)

\* The types whose references a declaration's handler asks for, in order:
\* modelDeclaration of emitter-typescript resolves model.baseModel and then
\* the properties; modelDeclaration of emitter-zod the properties only;
\* scalarDeclaration of emitter-typescript the base scalar.
ReferencedTypes(b, t) ==
    IF t \in Models
    THEN IF b # "zod" /\ program[t].baseModel # ""
         THEN <<program[t].baseModel>> \o program[t].properties
         ELSE program[t].properties
    ELSE <<BaseScalar[t]>>

\* The Declaration the cache holds for t, while its body is being computed.
Skeleton(t) == [name |-> t, kind |-> "Type", finalized |-> FALSE, body |-> <<>>]

\* The declaration cache on entry of a declaration: the skeleton is
\* registered before the body is computed.
RegisterSkeleton(cache, t) == [cache EXCEPT ![t] = "circular"]

\* A cache that forgets a declaration once its body is finished.
ForgetFinalized(cache, t) == [cache EXCEPT ![t] = "none"]

\* The declaration cache once the Declaration of t is finalized.
RegisterFinalized(cache, t) == [cache EXCEPT ![t] = "declaration"]

\* Finalizing the Declaration of t with its body.
RECURSIVE FinalizeIn(_, _, _)
FinalizeIn(decls, t, body) ==
    IF decls = <<>> THEN <<>>
    ELSE IF Head(decls).name = t /\ ~Head(decls).finalized
         THEN <<[Head(decls) EXCEPT !.finalized = TRUE, !.body = body]>> \o Tail(decls)
         ELSE <<Head(decls)>> \o FinalizeIn(Tail(decls), t, body)

Top == stack[Len(stack)]

\* t is what the walk resolves next: the next referenced type of the
\* innermost declaration, or any unvisited top-level model when no
\* declaration is in progress.
IsNext(t) ==
    /\ status = "running"
    /\ IF stack = <<>> THEN t \in queue
       ELSE /\ Top.next <= Len(ReferencedTypes(backend, Top.type))
            /\ t = ReferencedTypes(backend, Top.type)[Top.next]

\* The stack and queue once t has been resolved to entity e.
Resolved(e) ==
    IF stack = <<>> THEN stack
    ELSE [stack EXCEPT ![Len(stack)] =
            [@ EXCEPT !.next = @ + 1, !.parts = Append(@, e)]]

InitWalk ==
    /\ backend \in {"typescript", "zod"}
    /\ program \in [Models -> [baseModel : {""}, properties : PropertyLists]]
                   \cup {[Foo |-> [baseModel |-> "Baz", properties |-> ps],
                          Baz |-> [baseModel |-> "", properties |-> qs]] :
                            ps \in PropertyLists, qs \in PropertyLists}
    /\ typeToEmitEntity = [t \in Models \cup Scalars |-> "none"]
    /\ stack = <<>>
    /\ queue = Models
    /\ status = "running"
    /\ scopes = <<[name |-> "", parent |-> 0, declarations |-> <<>>]>>
    /\ nsByName = [n \in NamespaceNames |-> 0]
    /\ httpOperations = <<>>
    /\ emitted = 0
    /\ lastContext = [namespace |-> NoNamespace, cached |-> 0, scope |-> 0, created |-> 0]
    /\ phase = "emit"
    /\ output = NoOutput
    /\ operation = <<>>
    /\ rendered = <<>>
    /\ imports = <<>>
    /\ references = <<>>
    /\ options = NoOptions

\* emitType / emitTypeReference of a declaration that is not in the cache:
\* the skeleton is created and registered, and its body is entered.
EnterDeclaration(t) ==
    /\ IsNext(t)
    /\ IsDeclaration(backend, t)
    /\ typeToEmitEntity[t] = "none"
    /\ typeToEmitEntity' = RegisterSkeleton(typeToEmitEntity, t)
    /\ scopes' = AddDeclaration(scopes, GlobalScope, Skeleton(t))
    /\ stack' = Append(stack, [type |-> t, next |-> 1, parts |-> <<>>])
    /\ queue' = IF stack = <<>> THEN queue \ {t} ELSE queue
    /\ UNCHANGED <<backend, program, status>>
    /\ UNCHANGED scopeVars
    /\ UNCHANGED opVars
    /\ UNCHANGED fileVars

\* emitType / emitTypeReference of a declaration the cache already holds,
\* finalized or still being computed: a reference to it is returned.
ReferenceCached(t) ==
    /\ IsNext(t)
    /\ IsDeclaration(backend, t)
    /\ typeToEmitEntity[t] # "none"
    /\ stack' = Resolved(Reference(t))
    /\ queue' = IF stack = <<>> THEN queue \ {t} ELSE queue
    /\ UNCHANGED <<backend, program, status, typeToEmitEntity, scopes>>
    /\ UNCHANGED scopeVars
    /\ UNCHANGED opVars
    /\ UNCHANGED fileVars

\* emitTypeReference of a scalar that renders inline; a handler that throws
\* ends the run.
RenderInline(t) ==
    /\ IsNext(t)
    /\ ~IsDeclaration(backend, t)
    /\ LET e == ScalarInline(backend, t) IN
       IF e.kind = "throw"
       THEN /\ status' = "aborted"
            /\ UNCHANGED <<stack, typeToEmitEntity>>
       ELSE /\ status' = status
            /\ stack' = Resolved(e)
            /\ typeToEmitEntity' = [typeToEmitEntity EXCEPT ![t] = "rawCode"]
    /\ UNCHANGED <<backend, program, queue, scopes>>
    /\ UNCHANGED scopeVars
    /\ UNCHANGED opVars
    /\ UNCHANGED fileVars

\* The handler of the innermost declaration has resolved all its references
\* and returns result.declaration(name, code): the Declaration is finalized
\* and the caller gets a reference to it.
FinishDeclaration ==
    /\ status = "running"
    /\ stack # <<>>
    /\ Top.next > Len(ReferencedTypes(backend, Top.type))
    /\ scopes' = [scopes EXCEPT ![GlobalScope].declarations =
                     FinalizeIn(@, Top.type, Top.parts)]
    /\ typeToEmitEntity' = RegisterFinalized(typeToEmitEntity, Top.type)
    /\ stack' = LET rest == SubSeq(stack, 1, Len(stack) - 1) IN
                IF rest = <<>> THEN rest
                ELSE [rest EXCEPT ![Len(rest)] =
                        [@ EXCEPT !.next = @ + 1,
                                  !.parts = Append(@, Reference(Top.type))]]
    /\ UNCHANGED <<backend, program, queue, status>>
    /\ UNCHANGED scopeVars
    /\ UNCHANGED opVars
    /\ UNCHANGED fileVars

\* emitProgram returns: every top-level declaration has been visited.
EmitProgramReturns ==
    /\ status = "running"
    /\ stack = <<>>
    /\ queue = {}
    /\ status' = "done"
    /\ UNCHANGED <<backend, program, typeToEmitEntity, stack, queue, scopes>>
    /\ UNCHANGED scopeVars
    /\ UNCHANGED opVars
    /\ UNCHANGED fileVars

NextWalk ==
    \/ \E t \in Models \cup Scalars : EnterDeclaration(t)
    \/ \E t \in Models \cup Scalars : ReferenceCached(t)
    \/ \E t \in Models \cup Scalars : RenderInline(t)
    \/ FinishDeclaration
    \/ EmitProgramReturns

SpecWalk == InitWalk /\ [][NextWalk]_vars

\* The walk is one synchronous call: it keeps running until it returns or
\* throws.
SpecWalkFair == SpecWalk /\ WF_vars(NextWalk)

----------------------------------------------------------------------------
(* URL path templates: operation.path.replace(/\{(\w+)\}/, ...).            *)

\* Path segments of the templates explored: a literal segment, and two
\* placeholders ({a} and {bc}).
Segments ==
    { [kind |-> "literal", text |-> <<"/", "p">>],
      [kind |-> "param",   text |-> <<"a">>],
      [kind |-> "param",   text |-> <<"b", "c">>] }

\* Largest number of segments of a path template.
MaxSegments == 3

\* A parameter name occurs at most once in the path of an operation.
Templates ==
    {t \in UNION {[1..n -> Segments] : n \in 0..MaxSegments} :
        \A i, j \in DOMAIN t : (t[i].kind = "param" /\ t[i] = t[j]) => i = j}

ParamNames == {s.text : s \in {x \in Segments : x.kind = "param"}}

\* Runtime values of the path arguments.
ArgValues == {<<"1">>, <<"4", "2">>}

InitPath ==
    /\ backend \in {"express", "fetch-client"}
    /\ operation \in {[template |-> t, path |-> PathText(t)] : t \in Templates}
    /\ rendered = <<>>
    /\ imports = <<>>
    /\ references = <<>>
    /\ options = NoOptions
    /\ scopes = <<[name |-> "", parent |-> 0, declarations |-> <<>>]>>
    /\ nsByName = [n \in NamespaceNames |-> 0]
    /\ httpOperations = <<>>
    /\ emitted = 0
    /\ lastContext = [namespace |-> NoNamespace, cached |-> 0, scope |-> 0, created |-> 0]
    /\ phase = "emit"
    /\ output = NoOutput
    /\ program = <<>>
    /\ typeToEmitEntity = <<>>
    /\ stack = <<>>
    /\ queue = {}
    /\ status = "idle"

\* The express registrar of the operation is generated: router.verb(path).
ExpressRouteHandler ==
    /\ backend = "express"
    /\ rendered = <<>>
    /\ rendered' = [route |-> ExpressPath(operation.path)]
    /\ UNCHANGED <<backend, scopes, operation>>
    /\ UNCHANGED scopeVars
    /\ UNCHANGED walkVars
    /\ UNCHANGED fileVars

\* The client invoker of the operation is generated and called with args:
\* the URL it fetches is the evaluated template literal.
ClientRouteHandler(args) ==
    /\ backend = "fetch-client"
    /\ rendered = <<>>
    /\ rendered' = [template |-> ClientPathTemplate(operation.path),
                    args     |-> args,
                    url      |-> EvalTemplate(ClientPathTemplate(operation.path), args)]
    /\ UNCHANGED <<backend, scopes, operation>>
    /\ UNCHANGED scopeVars
    /\ UNCHANGED walkVars
    /\ UNCHANGED fileVars

NextPath ==
    \/ ExpressRouteHandler
    \/ \E args \in [ParamNames -> ArgValues] : ClientRouteHandler(args)

SpecPath == InitPath /\ [][NextPath]_vars

----------------------------------------------------------------------------
(* The argument shape of a client operation (FetchClientEmitter).          *)

\* How @typespec/http classifies a parameter: isQueryParam, isPathParam,
\* isBody, isBodyRoot, isBodyIgnore, or none of them ("other").
ParamKinds == {"query", "path", "body", "bodyRoot", "bodyIgnore", "other"}

\* Largest number of parameters of an operation.
MaxParams == 2

\* operation.parameters.properties: each parameter has its name (here its
\* position), its classification and its optional flag. The compiler rejects
\* an operation with two @body parameters.
ParameterLists ==
    {[i \in DOMAIN f |-> [name |-> i, kind |-> f[i].kind, optional |-> f[i].optional]] :
        f \in {g \in UNION {[1..n -> [kind : ParamKinds, optional : BOOLEAN]] : n \in 0..MaxParams} :
                 \A i, j \in DOMAIN g : (g[i].kind = "body" /\ g[j].kind = "body") => i = j}}

\* Array.prototype.filter over the parameters, by kind.
RECURSIVE OfKind(_, _)
OfKind(params, kinds) ==
    IF params = <<>> THEN <<>>
    ELSE IF Head(params).kind \in kinds
         THEN <<Head(params)>> \o OfKind(Tail(params), kinds)
         ELSE OfKind(Tail(params), kinds)

\* FetchClientEmitter.operationHasBody
OperationHasBody(params) ==
    \E i \in DOMAIN params :
        \/ params[i].kind = "body"
        \/ params[i].kind = "bodyRoot"
        \/ ~(params[i].kind = "query" \/ params[i].kind = "path"
                \/ params[i].kind = "bodyIgnore")

\* FetchClientEmitter.operationHasQuery
OperationHasQuery(params) == \E i \in DOMAIN params : params[i].kind = "query"

\* FetchClientEmitter.operationHasAnyRequiredParams
OperationHasAnyRequiredParams(params) == \E i \in DOMAIN params : ~params[i].optional

\* The loop of operationDeclaration that sorts the parameters into
\* queryParams, pathParams, bodyParam (the @body parameter) and bodyParams
\* (the loose ones); @bodyRoot and @bodyIgnore parameters are dropped.
ClassifyParameters(params) ==
    [queryParams  |-> OfKind(params, {"query"}),
     pathParams   |-> OfKind(params, {"path"}),
     hasBodyParam |-> OfKind(params, {"body"}) # <<>>,
     bodyParam    |-> OfKind(params, {"body"}),
     bodyParams   |-> OfKind(params, {"other"})]

\* One member of a generated object type: name, "?" when optional, and the
\* reference to the type of the parameter.
Member(prop) == [name |-> prop.name, optional |-> prop.optional]

NoBody == [kind |-> "none", undefinedOr |-> FALSE, members |-> <<>>]

\* export type ${name}Body of operationDeclaration: the object type of the
\* loose parameters, else the type of the @body parameter, else `undefined`
\* in ExpressEmitter and no Body type at all in FetchClientEmitter.
BodyType(b, params) ==
    LET c == ClassifyParameters(params) IN
    IF Len(c.bodyParams) > 0
    THEN [kind        |-> "object",
          undefinedOr |-> FALSE,
          members     |-> [i \in DOMAIN c.bodyParams |-> Member(c.bodyParams[i])]]
    ELSE IF c.bodyParam # <<>>
    THEN [kind        |-> "reference",
          undefinedOr |-> Last(c.bodyParam).optional,
          members     |-> <<Member(Last(c.bodyParam))>>]
    ELSE IF b = "express"
    THEN [kind |-> "undefined", undefinedOr |-> FALSE, members |-> <<>>]
    ELSE NoBody

\* argsTypeParts of operationDeclaration, before the join(" & ").
ArgsTypeParts(params) ==
    LET c == ClassifyParameters(params) IN
    (IF Len(c.pathParams) > 0 THEN <<"Params">> ELSE <<>>)
    \o (IF Len(c.queryParams) > 0 THEN <<"{query:Query}">> ELSE <<>>)
    \o (IF Len(c.bodyParams) > 0 \/ c.hasBodyParam THEN <<"{body: Body}">> ELSE <<>>)

\* export type ${name}ClientArgs = ${argsTypeParts || "undefined"}
ClientArgs(params) ==
    IF ArgsTypeParts(params) = <<>> THEN <<"undefined">>
    ELSE Join(ArgsTypeParts(params), " & ")

InitArgs ==
    /\ backend \in {"express", "fetch-client"}
    /\ operation \in {[parameters |-> ps] : ps \in ParameterLists}
    /\ rendered = <<>>
    /\ imports = <<>>
    /\ references = <<>>
    /\ options = NoOptions
    /\ scopes = <<[name |-> "", parent |-> 0, declarations |-> <<>>]>>
    /\ nsByName = [n \in NamespaceNames |-> 0]
    /\ httpOperations = <<>>
    /\ emitted = 0
    /\ lastContext = [namespace |-> NoNamespace, cached |-> 0, scope |-> 0, created |-> 0]
    /\ phase = "emit"
    /\ output = NoOutput
    /\ program = <<>>
    /\ typeToEmitEntity = <<>>
    /\ stack = <<>>
    /\ queue = {}
    /\ status = "idle"

\* The members of args the generated invoker reads, in the order of the
\* generated text, and whether the read is behind a test of args: the query
\* string (`args ? queryParamsToString(args?.query) : ''` when args is
\* optional, `queryParamsToString(args.query)` when it is required), the
\* `${args.name}` written for the placeholder of the path, and
\* `JSON.stringify(args.body)`.
InvokerReads(params) ==
    (IF OperationHasQuery(params)
     THEN <<[member |-> "query", guarded |-> ~OperationHasAnyRequiredParams(params)]>>
     ELSE <<>>)
    \o (IF OfKind(params, {"path"}) # <<>>
        THEN <<[member |-> "path", guarded |-> FALSE]>>
        ELSE <<>>)
    \o (IF OperationHasBody(params)
        THEN <<[member |-> "body", guarded |-> FALSE]>>
        ELSE <<>>)

\* operationDeclaration and the operation's part of sourceFile: the
\* ClientArgs type, and the entry of the Client interface whose args
\* parameter is optional (args?:) when no parameter is required.
RenderClientOperation ==
    /\ backend = "fetch-client"
    /\ rendered = <<>>
    /\ rendered' = [clientArgs   |-> ClientArgs(operation.parameters),
                    argsOptional |-> ~OperationHasAnyRequiredParams(operation.parameters),
                    sendsBody    |-> OperationHasBody(operation.parameters),
                    readsQuery   |-> OperationHasQuery(operation.parameters),
                    reads        |-> InvokerReads(operation.parameters),
                    body         |-> BodyType(backend, operation.parameters)]
    /\ UNCHANGED <<backend, scopes, operation>>
    /\ UNCHANGED scopeVars
    /\ UNCHANGED walkVars
    /\ UNCHANGED fileVars

\* ExpressEmitter.operationDeclaration: the Params, Query and Body types of
\* the operation's handler.
RenderExpressOperation ==
    /\ backend = "express"
    /\ rendered = <<>>
    /\ rendered' = [params |-> [i \in DOMAIN ClassifyParameters(operation.parameters).pathParams |->
                                  Member(ClassifyParameters(operation.parameters).pathParams[i])],
                    query  |-> [i \in DOMAIN ClassifyParameters(operation.parameters).queryParams |->
                                  Member(ClassifyParameters(operation.parameters).queryParams[i])],
                    body   |-> BodyType(backend, operation.parameters)]
    /\ UNCHANGED <<backend, scopes, operation>>
    /\ UNCHANGED scopeVars
    /\ UNCHANGED walkVars
    /\ UNCHANGED fileVars

NextArgs ==
    \/ RenderClientOperation
    \/ RenderExpressOperation

SpecArgs == InitArgs /\ [][NextArgs]_vars

----------------------------------------------------------------------------
(* The response type of an operation (operation.returnType).               *)

\* Name of the @statusCode property of a response model: "" when the model
\* has none, "_" as in the standard library responses, or a name of the
\* author's choice.
StatusNames == {"", "_", "code"}

\* The response shapes explored: the scalar string, the named model Pet and
\* an anonymous model { @body pet: Pet }, each model with or without a
\* @statusCode property.
ResponseShapes ==
    {[kind |-> "Scalar", name |-> "string", status |-> ""]}
    \cup [kind : {"Model"}, name : {"", "Pet"}, status : StatusNames]

\* Largest number of variants of a union return type.
MaxVariants == 2

ReturnTypes ==
    {[kind |-> sh.kind, shape |-> sh, variants |-> <<>>] : sh \in ResponseShapes}
    \cup {[kind |-> "Union", shape |-> [kind |-> "Union", name |-> "", status |-> ""],
            variants |-> vs] : vs \in UNION {[1..n -> ResponseShapes] : n \in 2..MaxVariants}}

\* model.properties of a response model: the @statusCode property when the
\* model has one, then the @body property.
PropertiesOf(shape) ==
    (IF shape.status # ""
     THEN <<[name |-> shape.status, isStatusCode |-> TRUE, type |-> "404"]>>
     ELSE <<>>)
    \o <<[name |-> "pet", isStatusCode |-> FALSE, type |-> "Pet"]>>

\* TypescriptEmitter.modelPropertyLiteral: the property "_" is written
\* statusCode, every other property keeps its name.
ModelPropertyLiteral(prop) ==
    <<IF prop.name = "_" THEN "statusCode" ELSE prop.name, ":", prop.type>>

\* emitModelProperties: the property literals of the model, separated by
\* commas; FetchClientEmitter.modelProperties leaves the @statusCode
\* property out and ends every property with a semicolon.
RECURSIVE ModelProperties(_, _)
ModelProperties(b, props) ==
    IF props = <<>> THEN <<>>
    ELSE IF b = "fetch-client"
         THEN (IF Head(props).isStatusCode THEN <<>>
               ELSE ModelPropertyLiteral(Head(props)) \o <<";">>)
              \o ModelProperties(b, Tail(props))
         ELSE ModelPropertyLiteral(Head(props))
              \o (IF Len(props) > 1 THEN <<",">> ELSE <<>>)
              \o ModelProperties(b, Tail(props))

\* TypescriptEmitter.modelLiteral
ModelLiteral(b, shape) == <<"{">> \o ModelProperties(b, PropertiesOf(shape)) \o <<"}">>

\* emitTypeReference of a response shape: the name of a named model, the
\* literal of an anonymous one, the TypeScript type of a scalar.
EmitTypeReference(b, shape) ==
    IF shape.kind = "Scalar" THEN <<intrinsicNameToTSType[shape.name]>>
    ELSE IF shape.name # "" THEN <<shape.name>>
    ELSE ModelLiteral(b, shape)

\* The loop of unionVariants with every variant followed by "|".
RECURSIVE UnionVariantsTrailingBar(_, _, _)
UnionVariantsTrailingBar(b, variants, i) ==
    IF i > Len(variants) THEN <<>>
    ELSE EmitTypeReference(b, variants[i]) \o <<"|">>
         \o UnionVariantsTrailingBar(b, variants, i + 1)

\* TypescriptEmitter.unionVariants: every variant in order, followed by "|"
\* when it is not the last.
RECURSIVE UnionVariants(_, _, _)
UnionVariants(b, variants, i) ==
    IF i > Len(variants) THEN <<>>
    ELSE EmitTypeReference(b, variants[i])
         \o (IF i < Len(variants) THEN <<"|">> ELSE <<>>)
         \o UnionVariants(b, variants, i + 1)

\* TypescriptEmitter.operationReturnType as ExpressEmitter uses it for
\* ResponseBody: emitTypeReference(operation.returnType).
ExpressResponseBody(returnType) ==
    IF returnType.kind = "Union" THEN UnionVariants("express", returnType.variants, 1)
    ELSE EmitTypeReference("express", returnType.shape)

\* The object FetchClientEmitter.operationReturnType builds for a model:
\* {data: <reference>; <the @statusCode property literal, or statusCode: 200>;}
ClientResponseObject(shape) ==
    LET statusCodeProp == SelectSeq(PropertiesOf(shape), LAMBDA prop : prop.isStatusCode) IN
    <<"{", "data", ":">> \o EmitTypeReference("fetch-client", shape) \o <<";">>
    \o (IF statusCodeProp # <<>>
         THEN ModelPropertyLiteral(statusCodeProp[1]) \o <<";">>
         ELSE <<"statusCode", ":", "200", ";">>)
    \o <<"}">>

\* The Union branch of FetchClientEmitter.operationReturnType: one object,
\* led by "|", for every variant that is a model.
RECURSIVE ClientResponseVariants(_)
ClientResponseVariants(variants) ==
    IF variants = <<>> THEN <<>>
    ELSE (IF Head(variants).kind = "Model"
          THEN <<"|">> \o ClientResponseObject(Head(variants))
          ELSE <<>>)
         \o ClientResponseVariants(Tail(variants))

\* FetchClientEmitter.operationReturnType
OperationReturnType(returnType) ==
    IF returnType.kind = "Model" THEN ClientResponseObject(returnType.shape)
    ELSE IF returnType.kind = "Union" THEN ClientResponseVariants(returnType.variants)
    ELSE EmitTypeReference("fetch-client", returnType.shape)

InitReturn ==
    /\ backend \in {"express", "fetch-client"}
    /\ operation \in {[returnType |-> rt] : rt \in ReturnTypes}
    /\ rendered = <<>>
    /\ imports = <<>>
    /\ references = <<>>
    /\ options = NoOptions
    /\ scopes = <<[name |-> "", parent |-> 0, declarations |-> <<>>]>>
    /\ nsByName = [n \in NamespaceNames |-> 0]
    /\ httpOperations = <<>>
    /\ emitted = 0
    /\ lastContext = [namespace |-> NoNamespace, cached |-> 0, scope |-> 0, created |-> 0]
    /\ phase = "emit"
    /\ output = NoOutput
    /\ program = <<>>
    /\ typeToEmitEntity = <<>>
    /\ stack = <<>>
    /\ queue = {}
    /\ status = "idle"

\* ExpressEmitter.operationDeclaration: export type ${name}ResponseBody
RenderExpressResponse ==
    /\ backend = "express"
    /\ rendered = <<>>
    /\ rendered' = [responseBody |-> ExpressResponseBody(operation.returnType)]
    /\ UNCHANGED <<backend, scopes, operation>>
    /\ UNCHANGED scopeVars
    /\ UNCHANGED walkVars
    /\ UNCHANGED fileVars

\* FetchClientEmitter.operationDeclaration: export type ${name}ResponseBody
RenderClientResponse ==
    /\ backend = "fetch-client"
    /\ rendered = <<>>
    /\ rendered' = [responseBody |-> OperationReturnType(operation.returnType)]
    /\ UNCHANGED <<backend, scopes, operation>>
    /\ UNCHANGED scopeVars
    /\ UNCHANGED walkVars
    /\ UNCHANGED fileVars

NextReturn ==
    \/ RenderExpressResponse
    \/ RenderClientResponse

SpecReturn == InitReturn /\ [][NextReturn]_vars

----------------------------------------------------------------------------
(* programContext: the source file an emission run creates and writes.     *)

Backends == {"typescript", "zod", "express", "fetch-client"}

\* options["output-file"] ?? "output.ts"
OutputFileOption(opts) ==
    IF "output-file" \in DOMAIN opts THEN opts["output-file"] ELSE "output.ts"

\* programContext of the SingleFile emitter of backend b: the path given to
\* createSourceFile. SingleFileZodEmitter passes the literal "output.ts".
ProgramContextPath(b, opts) ==
    IF b = "zod" THEN "output.ts" ELSE OutputFileOption(opts)

InitOptions ==
    /\ backend \in Backends
    /\ options \in OptionSets
    /\ scopes = <<[name |-> "", parent |-> 0, declarations |-> <<>>]>>
    /\ nsByName = [n \in NamespaceNames |-> 0]
    /\ httpOperations = <<>>
    /\ emitted = 0
    /\ lastContext = [namespace |-> NoNamespace, cached |-> 0, scope |-> 0, created |-> 0]
    /\ phase = "start"
    /\ output = [path |-> "", written |-> ""]
    /\ program = <<>>
    /\ typeToEmitEntity = <<>>
    /\ stack = <<>>
    /\ queue = {}
    /\ status = "idle"
    /\ operation = <<>>
    /\ rendered = <<>>
    /\ imports = <<>>
    /\ references = <<>>

\* emitProgram starts with programContext, which creates the source file.
ProgramContext ==
    /\ phase = "start"
    /\ output' = [output EXCEPT !.path = ProgramContextPath(backend, options)]
    /\ phase' = "emit"
    /\ UNCHANGED <<backend, scopes, nsByName, httpOperations, emitted, lastContext>>
    /\ UNCHANGED walkVars
    /\ UNCHANGED opVars
    /\ UNCHANGED fileVars

\* writeOutput: sourceFile returns { path: sourceFile.path, contents } and
\* the file is written under that path.
WriteOutput ==
    /\ phase = "emit"
    /\ output' = [output EXCEPT !.written = output.path]
    /\ phase' = "written"
    /\ UNCHANGED <<backend, scopes, nsByName, httpOperations, emitted, lastContext>>
    /\ UNCHANGED walkVars
    /\ UNCHANGED opVars
    /\ UNCHANGED fileVars

\* The declarations emitted in between are models of the global namespace.
NextOptions ==
    \/ ProgramContext
    \/ EmitDeclaration("Model", <<>>)
    \/ WriteOutput

SpecOptions == InitOptions /\ [][NextOptions]_vars

----------------------------------------------------------------------------
(* Enum members as written by enumMember.                                  *)

MemberNames == {"x", "y", "z"}

\* member.value: undefined for a member declared without a value, else a
\* number or a string.
MemberValues ==
    { [kind |-> "undefined", number |-> 0, string |-> ""] }
    \cup { [kind |-> "number", number |-> n, string |-> ""] : n \in 0..2 }
    \cup { [kind |-> "string", number |-> 0, string |-> v] : v \in {"", "hello"} }

\* Number of members of the enum under emission.
MaxMembers == 2

\* The member lists of the enums explored: member names are distinct.
EnumMembers ==
    { members \in UNION { [1..n -> [name : MemberNames, value : MemberValues]] : n \in 1..MaxMembers } :
        \A i, j \in DOMAIN members : members[i].name = members[j].name => i = j }

\* !v of JavaScript: undefined, 0 and "" are falsy.
Falsy(v) ==
    \/ v.kind = "undefined"
    \/ v.kind = "number" /\ v.number = 0
    \/ v.kind = "string" /\ v.string = ""

StringValue(text) == [kind |-> "string", number |-> 0, string |-> text]

\* JSON.stringify of a number or a string: the decimal digits, the text in
\* double quotes.
JsonStringify(v) ==
    IF v.kind = "number" THEN <<ToString(v.number)>> ELSE <<"\"", v.string, "\"">>

\* enumMember: const value = !member.value ? member.name : member.value,
\* written as `name = JSON.stringify(value)`.
EnumMember(member) ==
    LET value == IF Falsy(member.value) THEN StringValue(member.name) ELSE member.value
    IN <<member.name, "=">> \o JsonStringify(value)

InitEnum ==
    /\ backend \in {"typescript", "zod"}
    /\ scopes = <<[name |-> "", parent |-> 0, declarations |-> <<>>]>>
    /\ nsByName = [n \in NamespaceNames |-> 0]
    /\ httpOperations = <<>>
    /\ emitted = 0
    /\ lastContext = [namespace |-> NoNamespace, cached |-> 0, scope |-> 0, created |-> 0]
    /\ phase = "emit"
    /\ output = NoOutput
    /\ program \in EnumMembers
    /\ typeToEmitEntity = <<>>
    /\ stack = <<>>
    /\ queue = {}
    /\ status = "idle"
    /\ operation = <<>>
    /\ rendered = <<>>
    /\ imports = <<>>
    /\ references = <<>>
    /\ options = NoOptions

\* emitEnumMembers: the next member of the enum is written.
EmitEnumMember ==
    /\ Len(rendered) < Len(program)
    /\ rendered' = Append(rendered, EnumMember(program[Len(rendered) + 1]))
    /\ UNCHANGED <<backend, scopes, nsByName, httpOperations, emitted, lastContext,
                   phase, output, program, typeToEmitEntity, stack, queue, status, operation>>
    /\ UNCHANGED fileVars

NextEnum == EmitEnumMember

SpecEnum == InitEnum /\ [][NextEnum]_vars

----------------------------------------------------------------------------
(* The generated fetch client at run time: the headers of a request.       *)

\* The headers of a RequestInit: header name -> value. The empty set of
\* headers also stands for options that are undefined or have no headers.
HeaderSets == UNION { [names -> {"a", "b"}] : names \in SUBSET {"Authorization", "Content-Type"} }

\* The registry an operation of PetStore.Pets is called through:
\* client.PetStorePets.op (the root field of the namespace) or
\* client.PetStore.Pets.op (the sub-registry nested in its parent's).
Registries == {"root field", "nested"}

\* { ...a, ...b }: the members of b replace those of a.
Spread(a, b) ==
    [h \in DOMAIN a \cup DOMAIN b |-> IF h \in DOMAIN b THEN b[h] ELSE a[h]]

\* The arguments of the call that builds a registry: createTypedClient calls
\* create<Chain>Client(baseUrl, defaultOptions) for a root field, a builder
\* calls create<Chain><Child>Client(baseUrl) for a child scope.
BuilderArguments(registry) ==
    IF registry = "root field" THEN <<"baseUrl", "defaultOptions">> ELSE <<"baseUrl">>

\* The defaultOptions parameter of a builder called with these arguments:
\* its headers, none when the argument is not passed (defaultOptions?.headers).
DefaultHeaders(arguments, defaultOptions) ==
    IF Len(arguments) >= 2 THEN defaultOptions ELSE <<>>

\* headers: { ...defaultOptions?.headers, ...options?.headers,
\*            'Content-Type': 'application/json' } of the generated invoker.
RequestHeaders(registry, defaultOptions, callOptions) ==
    Spread(Spread(DefaultHeaders(BuilderArguments(registry), defaultOptions), callOptions),
           [h \in {"Content-Type"} |-> "application/json"])

InitClient ==
    /\ backend = "fetch-client"
    /\ operation \in [registry : Registries, defaultOptions : HeaderSets, options : HeaderSets]
    /\ rendered = <<>>
    /\ scopes = <<[name |-> "", parent |-> 0, declarations |-> <<>>]>>
    /\ nsByName = [n \in NamespaceNames |-> 0]
    /\ httpOperations = <<>>
    /\ emitted = 0
    /\ lastContext = [namespace |-> NoNamespace, cached |-> 0, scope |-> 0, created |-> 0]
    /\ phase = "emit"
    /\ output = NoOutput
    /\ program = <<>>
    /\ typeToEmitEntity = <<>>
    /\ stack = <<>>
    /\ queue = {}
    /\ status = "idle"
    /\ imports = <<>>
    /\ references = <<>>
    /\ options = NoOptions

\* createTypedClient(baseUrl, defaultOptions) is called and the operation is
\* invoked through the registry with the call's own options: the request
\* passed to fetch.
IssueRequest ==
    /\ rendered = <<>>
    /\ rendered' = [headers |-> RequestHeaders(operation.registry, operation.defaultOptions,
                                               operation.options)]
    /\ UNCHANGED <<backend, scopes, operation>>
    /\ UNCHANGED scopeVars
    /\ UNCHANGED walkVars
    /\ UNCHANGED fileVars

NextClient == IssueRequest

SpecClient == InitClient /\ [][NextClient]_vars

----------------------------------------------------------------------------
(* Template instantiations: the declaration an instantiation of a          *)
(* parameterized model resolves to, and its name.                           *)

\* Uses of instantiated models as property types; two uses with the same
\* template and the same arguments are the same type of the type graph.
Instantiations ==
    { [base |-> "Template", args |-> <<"int32">>],
      [base |-> "Template", args |-> <<"string">>],
      [base |-> "Template", args |-> <<"int32", "string">>],
      [base |-> "Page",     args |-> <<"int32">>],
      [base |-> "Record",   args |-> <<"int32">>] }

\* Number of uses of instantiations in one program.
MaxUses == 3

UseLists == UNION { [1..n -> Instantiations] : n \in 1..MaxUses }

\* The name of a type argument with its first letter in upper case.
Capitalized(name) ==
    CASE name = "int32"  -> "Int32"
      [] name = "string" -> "String"
      [] OTHER           -> name

\* declarationName of an instantiation: the name of the template followed by
\* the capitalized names of the arguments.
DeclarationName(type) ==
    <<type.base>> \o [a \in DOMAIN type.args |-> Capitalized(type.args[a])]

\* A lookup that never finds a declaration.
NeverCached(decls, type, i) == 0

\* The position of the Declaration created for this type (0: none).
RECURSIVE CachedDeclaration(_, _, _)
CachedDeclaration(decls, type, i) ==
    IF i > Len(decls) THEN 0
    ELSE IF decls[i].type = type THEN i
    ELSE CachedDeclaration(decls, type, i + 1)

\* TypescriptEmitter.scalar rendering of an intrinsic scalar name.
IntrinsicName(name) == IF name = "int32" THEN "number" ELSE name

\* TypescriptEmitter.modelInstantiation: an instantiation of Record is
\* written in place as Record<string, T>, any other becomes a declaration
\* under the given name.
ModelInstantiation(type, name) ==
    IF type.base = "Record"
    THEN [kind |-> "code",
          text |-> <<"Record", "<", "string", ",", IntrinsicName(type.args[1]), ">">>]
    ELSE [kind |-> "declaration", type |-> type, name |-> name]

InitTemplate ==
    /\ backend = "typescript"
    /\ scopes = <<[name |-> "", parent |-> 0, declarations |-> <<>>]>>
    /\ nsByName = [n \in NamespaceNames |-> 0]
    /\ httpOperations = <<>>
    /\ emitted = 0
    /\ lastContext = [namespace |-> NoNamespace, cached |-> 0, scope |-> 0, created |-> 0]
    /\ phase = "emit"
    /\ output = NoOutput
    /\ program \in UseLists
    /\ typeToEmitEntity = <<>>
    /\ stack = <<>>
    /\ queue = {}
    /\ status = "idle"
    /\ operation = <<>>
    /\ rendered = <<>>
    /\ imports = <<>>
    /\ references = <<>>
    /\ options = NoOptions

\* emitTypeReference of the next use: the Declaration the type already has
\* is referred to by its name; a type without one goes through
\* modelInstantiation first.
ResolveInstantiation ==
    /\ Len(rendered) < Len(program)
    /\ LET type   == program[Len(rendered) + 1]
           cached == CachedDeclaration(typeToEmitEntity, type, 1)
           entity == ModelInstantiation(type, DeclarationName(type))
       IN IF cached # 0
          THEN /\ rendered' = Append(rendered, [kind |-> "reference", declaration |-> cached,
                                                name |-> typeToEmitEntity[cached].name])
               /\ UNCHANGED typeToEmitEntity
          ELSE IF entity.kind = "declaration"
          THEN /\ typeToEmitEntity' = Append(typeToEmitEntity, entity)
               /\ rendered' = Append(rendered, [kind |-> "reference",
                                                declaration |-> Len(typeToEmitEntity) + 1,
                                                name |-> entity.name])
          ELSE /\ rendered' = Append(rendered, entity)
               /\ UNCHANGED typeToEmitEntity
    /\ UNCHANGED <<backend, scopes, nsByName, httpOperations, emitted, lastContext,
                   phase, output, program, stack, queue, status, operation>>
    /\ UNCHANGED fileVars

NextTemplate == ResolveInstantiation

SpecTemplate == InitTemplate /\ [][NextTemplate]_vars

----------------------------------------------------------------------------
(* Source files: the import table filled by TypescriptEmitter.reference and *)
(* the text assembled by TypescriptEmitter.sourceFile.                      *)

\* Declarations of other source files that the output file refers to, with
\* the path of their file: Basic and Other live in the same file.
ReferenceTargets ==
    { [name |-> "Basic",     path |-> <<"Basic", ".ts">>],
      [name |-> "Other",     path |-> <<"Basic", ".ts">>],
      [name |-> "UnionDecl", path |-> <<"UnionDecl", ".js">>] }

\* Number of cross-file references resolved in one run.
MaxRefs == 2

\* path.replace(".js", ".ts"): the first ".js" of the path becomes ".ts".
RECURSIVE ReplaceJsByTs(_)
ReplaceJsByTs(path) ==
    IF path = <<>> THEN <<>>
    ELSE IF Head(path) = ".js" THEN <<".ts">> \o Tail(path)
    ELSE <<Head(path)>> \o ReplaceJsByTs(Tail(path))

\* `./${targetSf.path.replace(".js", ".ts")}`
ImportPath(path) == <<"./">> \o ReplaceJsByTs(path)

\* The position of the entry of the import table with this path (0: none).
RECURSIVE ImportsIndexFrom(_, _, _)
ImportsIndexFrom(imps, path, i) ==
    IF i > Len(imps) THEN 0
    ELSE IF imps[i].path = path THEN i
    ELSE ImportsIndexFrom(imps, path, i + 1)

\* An import table that adds the names to the entry the path already has.
ImportsPush(imps, path, names) ==
    LET i == ImportsIndexFrom(imps, path, 1) IN
    IF i # 0 THEN [imps EXCEPT ![i].names = @ \o names]
    ELSE Append(imps, [path |-> path, names |-> names])

\* sourceSf.imports.set(path, names): Map.prototype.set replaces the value
\* of an existing key, which keeps its position, and appends a new key.
ImportsSet(imps, path, names) ==
    LET i == ImportsIndexFrom(imps, path, 1) IN
    IF i # 0 THEN [imps EXCEPT ![i].names = names]
    ELSE Append(imps, [path |-> path, names |-> names])

\* TypescriptEmitter.reference when source and target have no common scope:
\* the source file imports the target declaration from the target's file.
ReferenceImports(imps, target) ==
    ImportsSet(imps, ImportPath(target.path), <<target.name>>)

\* The lines of the assembled text.
ImportLine(entry) == [line |-> "import", names |-> entry.names, from |-> entry.path]
DeclarationText(decl) == [line |-> "declaration", value |-> decl.name]
NamespaceOpen(scope) == [line |-> "namespace", scope |-> scope.name]
NamespaceClose == [line |-> "}"]

RECURSIVE Concat(_)
Concat(seqs) == IF seqs = <<>> THEN <<>> ELSE Head(seqs) \o Concat(Tail(seqs))

DeclarationTexts(scs, s) ==
    [d \in DOMAIN scs[s].declarations |-> DeclarationText(scs[s].declarations[d])]

\* A namespace block that writes its own declarations before its nested
\* blocks.
RECURSIVE EmitNamespaceDeclarationsFirst(_, _)
EmitNamespaceDeclarationsFirst(scs, s) ==
    <<NamespaceOpen(scs[s])>>
    \o DeclarationTexts(scs, s)
    \o Concat([c \in DOMAIN ChildScopes(scs, s) |->
                  EmitNamespaceDeclarationsFirst(scs, ChildScopes(scs, s)[c])])
    \o <<NamespaceClose>>

\* emitNamespace(scope): `namespace name {`, the blocks of the child scopes,
\* the declarations of the scope, `}`.
RECURSIVE EmitNamespace(_, _)
EmitNamespace(scs, s) ==
    <<NamespaceOpen(scs[s])>>
    \o Concat([c \in DOMAIN ChildScopes(scs, s) |->
                  EmitNamespace(scs, ChildScopes(scs, s)[c])])
    \o DeclarationTexts(scs, s)
    \o <<NamespaceClose>>

\* emitNamespaces(scope): the blocks of the child scopes, in order.
EmitNamespaces(scs, s) ==
    Concat([c \in DOMAIN ChildScopes(scs, s) |-> EmitNamespace(scs, ChildScopes(scs, s)[c])])

\* TypescriptEmitter.sourceFile: the import lines, the declarations of the
\* global scope, the namespace blocks (prettier.format lays the text out and
\* keeps its lines and their order).
TsSourceFileContents(scs, imps) ==
    [i \in DOMAIN imps |-> ImportLine(imps[i])]
    \o DeclarationTexts(scs, GlobalScope)
    \o EmitNamespaces(scs, GlobalScope)

\* An emitter that is run again on the state the first run left behind.
ReusedEmitter == [scopes |-> scopes, nsByName |-> nsByName, imports |-> imports]

\* createAssetEmitter(program, SingleFileTypescriptEmitter, context): a new
\* emitter instance with an empty nsByName and a new, empty source file.
NewEmitter ==
    [scopes   |-> <<[name |-> "", parent |-> 0, declarations |-> <<>>]>>,
     nsByName |-> [n \in NamespaceNames |-> 0],
     imports  |-> <<>>]

\* The declaration emitted as the k-th one in the current run.
DeclarationNumber(k) ==
    CHOOSE decl \in UNION {SeqToSet(scopes[s].declarations) : s \in DOMAIN scopes} :
        decl.name = k

\* emitProgram of a second emitter over the same program in the same order:
\* the declarations from the k-th on, then the references from the r-th on.
RECURSIVE EmitProgram(_, _, _)
EmitProgram(em, k, r) ==
    IF k <= emitted
    THEN LET decl == DeclarationNumber(k)
             ctx  == DeclarationContext(em.scopes, em.nsByName, decl.namespace)
         IN EmitProgram([em EXCEPT !.scopes = AddDeclaration(ctx.scopes, ctx.scope, decl),
                                   !.nsByName = ctx.nsByName],
                        k + 1, r)
    ELSE IF r <= Len(references)
    THEN EmitProgram([em EXCEPT !.imports = ReferenceImports(@, references[r])], k, r + 1)
    ELSE em

InitFiles ==
    /\ backend = "typescript"
    /\ scopes = <<[name |-> "", parent |-> 0, declarations |-> <<>>]>>
    /\ nsByName = [n \in NamespaceNames |-> 0]
    /\ httpOperations = <<>>
    /\ emitted = 0
    /\ lastContext = [namespace |-> NoNamespace, cached |-> 0, scope |-> 0, created |-> 0]
    /\ phase = "emit"
    /\ output = [contents |-> <<>>, again |-> <<>>]
    /\ program = <<>>
    /\ typeToEmitEntity = <<>>
    /\ stack = <<>>
    /\ queue = {}
    /\ status = "idle"
    /\ operation = <<>>
    /\ rendered = <<>>
    /\ imports = <<>>
    /\ references = <<>>
    /\ options = NoOptions

\* A declaration of the output file refers to a declaration of another
\* source file: reference() is called without a common scope.
ResolveReference(target) ==
    /\ phase = "emit"
    /\ Len(references) < MaxRefs
    /\ imports' = ReferenceImports(imports, target)
    /\ references' = Append(references, target)
    /\ UNCHANGED options
    /\ UNCHANGED <<backend, scopes, nsByName, httpOperations, emitted, lastContext,
                   phase, output>>
    /\ UNCHANGED walkVars
    /\ UNCHANGED opVars

\* writeOutput: sourceFile assembles the text of the output file.
TsSourceFile ==
    /\ phase = "emit"
    /\ output' = [output EXCEPT !.contents = TsSourceFileContents(scopes, imports)]
    /\ phase' = "written"
    /\ UNCHANGED <<backend, scopes, nsByName, httpOperations, emitted, lastContext>>
    /\ UNCHANGED walkVars
    /\ UNCHANGED opVars
    /\ UNCHANGED fileVars

\* The same program is emitted a second time, in the same order, by a new
\* emitter, and its output file is assembled.
EmitAgain ==
    /\ phase = "written"
    /\ LET em == EmitProgram(NewEmitter, 1, 1) IN
       output' = [output EXCEPT !.again = TsSourceFileContents(em.scopes, em.imports)]
    /\ phase' = "again"
    /\ UNCHANGED <<backend, scopes, nsByName, httpOperations, emitted, lastContext>>
    /\ UNCHANGED walkVars
    /\ UNCHANGED opVars
    /\ UNCHANGED fileVars

NextFiles ==
    \/ \E ns \in NamespaceChains : EmitDeclaration("Model", ns)
    \/ \E target \in ReferenceTargets : ResolveReference(target)
    \/ TsSourceFile
    \/ EmitAgain

SpecFiles == InitFiles /\ [][NextFiles]_vars

----------------------------------------------------------------------------
(* Properties of the scope tree and of the aggregation, checked under Spec. *)

\* The HTTP operations that belong to a registry group.
OperationsOf(group) ==
    {i \in DOMAIN httpOperations : \E j \in DOMAIN group.operationNames :
                                       group.operationNames[j] = httpOperations[i].name}

\* The namespace scopes (every scope but the global one).
NamespaceScopes == (DOMAIN scopes) \ {GlobalScope}

\* The Declarations of the output file's global scope.
Declarations == scopes[GlobalScope].declarations

FinalizedFor(t) ==
    {d \in DOMAIN Declarations : Declarations[d].name = t /\ Declarations[d].finalized}

RefersByName(m, body) ==
    /\ Len(body) = Len(ReferencedTypes(backend, m))
    /\ \A i \in DOMAIN body :
          IsDeclaration(backend, ReferencedTypes(backend, m)[i]) =>
              body[i] = [kind |-> "reference", value |-> ReferencedTypes(backend, m)[i]]

\* C2: the walk over any graph of models, self-referential and
\* mutually-referential ones included, ends; no declaration is entered while
\* it is already being computed; and a finished run holds one Declaration per
\* model whose body refers to the models it uses by name.
C2_CyclesTerminate ==
    /\ <>(status # "running")
    /\ [](\A i, j \in DOMAIN stack : stack[i].type = stack[j].type => i = j)
    /\ [](status = "done" =>
            \A m \in Models :
                /\ Cardinality({d \in DOMAIN Declarations : Declarations[d].name = m}) = 1
                /\ \A d \in FinalizedFor(m) : RefersByName(m, Declarations[d].body)
                /\ FinalizedFor(m) # {})

\* C2 witness: the run over Foo { prop: Baz }, Baz { prop: Foo } has finished
\* with two Declarations, each referring to the other.
C2_Witness ==
    /\ status = "done"
    /\ program["Foo"] = [baseModel |-> "", properties |-> <<"Baz">>]
    /\ program["Baz"] = [baseModel |-> "", properties |-> <<"Foo">>]
    /\ \E d, e \in DOMAIN Declarations :
          /\ Declarations[d] = [name |-> "Foo", kind |-> "Type", finalized |-> TRUE,
                                body |-> <<[kind |-> "reference", value |-> "Baz"]>>]
          /\ Declarations[e] = [name |-> "Baz", kind |-> "Type", finalized |-> TRUE,
                                body |-> <<[kind |-> "reference", value |-> "Foo"]>>]

\* A scalar without a known rendering and without a base scalar.
IsUnknownType(t) ==
    t \in Scalars /\ t \notin DOMAIN intrinsicNameToTSType /\ BaseScalar[t] = ""

\* C10: in every backend, resolving a scalar that has no known rendering and
\* no base scalar emits the permissive fallback type, and the run is never
\* aborted by it.
C10_UnknownTypeRecovered ==
    /\ status # "aborted"
    /\ \A f \in DOMAIN stack : \A i \in DOMAIN stack[f].parts :
          IsUnknownType(ReferencedTypes(backend, stack[f].type)[i]) =>
              stack[f].parts[i] = [kind |-> "rawCode", value |-> "any"]

\* C3: when declarationContext is called for a declaration whose namespace
\* has the full chain n1.n2...nk, the scope it returns is named nk and its
\* parents up to the file's global scope are the scopes named nk-1, ..., n1.
C3_ChainTopDown ==
    (lastContext.namespace # NoNamespace /\ lastContext.namespace # <<>>)
        => ScopePath(scopes, lastContext.scope) = lastContext.namespace

\* C4: at most one namespace scope exists per namespace name, and a
\* declarationContext call for a name already in nsByName returns the cached
\* scope and creates no scope.
C4_OneScopePerName ==
    /\ \A i, j \in NamespaceScopes : scopes[i].name = scopes[j].name => i = j
    /\ lastContext.cached # 0 =>
          /\ lastContext.scope = lastContext.cached
          /\ lastContext.created = 0

\* C4 witness: a second declaration was emitted for a namespace name that was
\* already cached, after a chain of three scopes had been created.
C4_Witness ==
    /\ emitted >= 2
    /\ lastContext.cached # 0
    /\ lastContext.scope = lastContext.cached
    /\ Len(scopes) >= 4

\* C11: when the aggregation pass finds no namespace scope for a group, the
\* run fails at that group: no file is written, and nothing is assembled for
\* the group or for what follows it.
C11_MissingScopeIsFatal ==
    phase # "emit" =>
        \A g \in DOMAIN output.groups :
            nsByName[output.groups[g].namespace] = 0 =>
                /\ phase = "failed"
                /\ Len(output.handlerFunctions) < g

\* C5: operations whose namespaces have different full chains are never in
\* the same registry group, and the namespaceChain of a group is the full
\* namespace chain of each of its operations.
C5_GroupedByFullChain ==
    phase = "written" =>
        \A g \in DOMAIN output.groups : \A i \in OperationsOf(output.groups[g]) :
            httpOperations[i].namespace # NoNamespace =>
                output.groups[g].namespaceChain = httpOperations[i].namespace

\* The registry interfaces (Handlers / Client) held by scope s.
RegistriesIn(s) ==
    {d \in DOMAIN scopes[s].declarations :
        scopes[s].declarations[d].kind = RegistryWord(backend)}

\* C6: for every namespace N that contains operations, the generated
\* registry sits in the scope of N, lists the operations of N, has one
\* sub-registry field per child scope of N, and each of these fields leads to
\* the registry generated for that child scope.
C6_RegistryMirrorsScopes ==
    phase = "written" =>
        \A i \in DOMAIN httpOperations :
            httpOperations[i].namespace # NoNamespace =>
                \E s \in NamespaceScopes :
                    /\ ScopePath(scopes, s) = httpOperations[i].namespace
                    /\ \E d \in RegistriesIn(s) :
                          LET reg == scopes[s].declarations[d] IN
                          /\ \E e \in DOMAIN reg.entries :
                                reg.entries[e] = httpOperations[i].name
                          /\ reg.children = ChildNames(scopes, s)
                          /\ \A c \in DOMAIN ChildScopes(scopes, s) :
                                RegistriesIn(ChildScopes(scopes, s)[c]) # {}

\* The route expected for a template: /p for a literal, /:name for a
\* placeholder.
RECURSIVE ColonRoute(_)
ColonRoute(segs) ==
    IF segs = <<>> THEN <<>>
    ELSE (IF Head(segs).kind = "literal" THEN Head(segs).text
          ELSE <<"/", ":">> \o Head(segs).text) \o ColonRoute(Tail(segs))

\* C7: the express route has every {name} placeholder of the path template
\* rewritten to :name, in order, and every other character unchanged.
C7_ExpressPlaceholders ==
    (backend = "express" /\ rendered # <<>>)
        => rendered.route = ColonRoute(operation.template)

\* The URL expected for a template: /p for a literal, /value for a
\* placeholder.
RECURSIVE SubstitutedUrl(_, _)
SubstitutedUrl(segs, args) ==
    IF segs = <<>> THEN <<>>
    ELSE (IF Head(segs).kind = "literal" THEN Head(segs).text
          ELSE <<"/">> \o args[Head(segs).text]) \o SubstitutedUrl(Tail(segs), args)

\* C8: the URL the client invoker fetches has every {name} placeholder of
\* the path template replaced by the value of args.name, and no placeholder
\* text is left in it.
C8_ClientPlaceholders ==
    (backend = "fetch-client" /\ rendered # <<>>)
        => /\ rendered.url = SubstitutedUrl(operation.template, rendered.args)
           /\ FirstMatch(rendered.url, 1) = 0

\* An operation without path, query or body parameter: no @path, @query,
\* @body or @bodyRoot parameter and no loose parameter.
HasNoArguments(params) ==
    \A i \in DOMAIN params :
        params[i].kind \notin {"path", "query", "body", "bodyRoot", "other"}

\* C9: an operation with no path, query or body parameter gets the
\* argument shape undefined and an optional args parameter; an operation
\* that has parameters, all of them optional, gets an argument shape that is
\* a defined object type.
C9_NoArgumentDistinction ==
    (backend = "fetch-client" /\ rendered # <<>>) =>
        /\ HasNoArguments(operation.parameters) =>
              /\ rendered.clientArgs = <<"undefined">>
              /\ rendered.argsOptional
        /\ (operation.parameters # <<>>
              /\ \A i \in DOMAIN operation.parameters : operation.parameters[i].optional)
              => rendered.clientArgs # <<"undefined">>

\* The loose parameters of an operation: not @path, not @query, not @body
\* (and not @bodyIgnore, which keeps a parameter out of the body).
LooseParameters(params) == OfKind(params, ParamKinds \ {"path", "query", "body", "bodyIgnore"})

\* C12: the Body type of an operation is the object type with one member
\* per loose parameter when there is a loose parameter; otherwise the type
\* of the @body parameter, with `undefined |` in front exactly when that
\* parameter is optional; otherwise, in the express backend, `undefined`.
C12_BodyType ==
    rendered # <<>> =>
        LET loose    == LooseParameters(operation.parameters)
            explicit == OfKind(operation.parameters, {"body"})
        IN IF loose # <<>>
           THEN /\ rendered.body.kind = "object"
                /\ rendered.body.members = [i \in DOMAIN loose |-> Member(loose[i])]
           ELSE IF explicit # <<>>
           THEN /\ rendered.body.kind = "reference"
                /\ rendered.body.members = <<Member(explicit[1])>>
                /\ rendered.body.undefinedOr = explicit[1].optional
           ELSE backend = "express" => rendered.body.kind = "undefined"

\* The HTTP operations declared directly in the namespace with chain ns.
DeclaredIn(ns) == {i \in DOMAIN httpOperations : httpOperations[i].namespace = ns}

\* The registrars of the builder functions generated for the chain ns.
RegistrarsOf(ns) ==
    {r \in UNION {SeqToSet(output.handlerFunctions[f].body) :
                     f \in {g \in DOMAIN output.handlerFunctions :
                               output.groups[g].namespaceChain = ns}} : TRUE}

\* C13: in the express backend every namespace that declares HTTP
\* operations has a registry in its scope with exactly one entry per
\* operation declared directly in it, and the registrar of each entry
\* registers the handlers under the operation's verb and under its path with
\* every {name} written :name.
C13_RegistryEntries ==
    (backend = "express" /\ phase = "written") =>
        \A i \in DOMAIN httpOperations :
            LET op == httpOperations[i] IN
            op.namespace # NoNamespace =>
                \E s \in NamespaceScopes :
                    /\ ScopePath(scopes, s) = op.namespace
                    /\ \E d \in RegistriesIn(s) :
                          LET entries == scopes[s].declarations[d].entries IN
                          /\ \A j \in DeclaredIn(op.namespace) :
                                Cardinality({e \in DOMAIN entries :
                                               entries[e] = httpOperations[j].name}) = 1
                          /\ \A e \in DOMAIN entries : \A j \in DOMAIN httpOperations :
                                (entries[e] = httpOperations[j].name
                                    /\ httpOperations[j].namespace # NoNamespace)
                                 => j \in DeclaredIn(op.namespace)
                    /\ \E r \in RegistrarsOf(op.namespace) :
                          /\ r.name = op.name
                          /\ r.verb = op.verb
                          /\ r.path = ColonRoute(op.template)

\* The namespaces that directly contain at least one HTTP operation.
OperationNamespaces ==
    {httpOperations[i].namespace : i \in DOMAIN httpOperations} \ {NoNamespace}

\* The field the root registry is expected to have for the namespace ns.
RootField(ns) ==
    [field   |-> Join(ns, ""),
     type    |-> Join(ns, ".") \o <<".", RegistryWord(backend)>>,
     builder |-> <<"create">> \o Join(ns, "") \o <<RegistryWord(backend)>>]

\* C20: the root registry (TypedRouter / TypedClient) has exactly one field
\* per namespace that directly contains an HTTP operation, named by the
\* concatenated chain and typed by the dotted chain's Handlers / Client, and
\* the root builder sets it to the result of the builder generated for that
\* namespace.
C20_RootRegistryFields ==
    phase = "written" =>
        /\ \A ns \in OperationNamespaces :
              /\ Cardinality({r \in DOMAIN output.root : output.root[r] = RootField(ns)}) = 1
              /\ \E f \in DOMAIN output.handlerFunctions :
                    /\ output.handlerFunctions[f].name = RootField(ns).builder
                    /\ output.handlerFunctions[f].returns = RootField(ns).type
        /\ \A r \in DOMAIN output.root :
              \E ns \in OperationNamespaces : output.root[r] = RootField(ns)

\* The renderings of the first n variants with "|" between them.
RECURSIVE BarJoined(_, _)
BarJoined(variants, n) ==
    IF n = 0 THEN <<>>
    ELSE IF n = 1 THEN EmitTypeReference("express", variants[1])
    ELSE BarJoined(variants, n - 1) \o <<"|">> \o EmitTypeReference("express", variants[n])

\* C14: in the express backend the ResponseBody of an operation whose return
\* type is a union of n shapes is the renderings of the n shapes in variant
\* order, joined by "|": no variant is dropped, merged or flattened.
C14_UnionResponseBody ==
    (backend = "express" /\ rendered # <<>> /\ operation.returnType.kind = "Union") =>
        rendered.responseBody
            = BarJoined(operation.returnType.variants, Len(operation.returnType.variants))

\* C14 witness: the union of an anonymous model and the named model Pet has
\* been rendered as { pet: Pet } | Pet.
C14_Witness ==
    /\ backend = "express"
    /\ rendered # <<>>
    /\ operation.returnType.kind = "Union"
    /\ operation.returnType.variants
          = <<[kind |-> "Model", name |-> "", status |-> ""],
              [kind |-> "Model", name |-> "Pet", status |-> ""]>>
    /\ rendered.responseBody = <<"{", "pet", ":", "Pet", "}", "|", "Pet">>

\* C19: in the client backend the response type of an operation that returns
\* a model is { data: <the model's type>; statusCode: <T> }, where T is the
\* type of the model's @statusCode property, and 200 when it has none.
C19_ClientResponseType ==
    (backend = "fetch-client" /\ rendered # <<>> /\ operation.returnType.kind = "Model") =>
        LET shape == operation.returnType.shape IN
        rendered.responseBody
            = <<"{", "data", ":">> \o EmitTypeReference("fetch-client", shape)
              \o <<";", "statusCode", ":", IF shape.status # "" THEN "404" ELSE "200", ";", "}">>

\* C17: resolving again the cross-file reference that was resolved last
\* leaves the import table as it was: the file of the target keeps one entry,
\* and the entry lists the name of the target once.
C17_ImportIdempotent ==
    [][(references # <<>> /\ references' = Append(references, Last(references))) =>
          /\ imports' = imports
          /\ \E i \in DOMAIN imports' :
                /\ imports'[i] = [path  |-> ImportPath(Last(references).path),
                                  names |-> <<Last(references).name>>]
                /\ \A j \in DOMAIN imports' : imports'[j].path = imports'[i].path => j = i]_vars

\* C17 witness: UnionDecl of UnionDecl.js has been referred to twice and the
\* import table holds the single entry "./UnionDecl.ts" -> [UnionDecl].
C17_Witness ==
    /\ references = <<[name |-> "UnionDecl", path |-> <<"UnionDecl", ".js">>],
                      [name |-> "UnionDecl", path |-> <<"UnionDecl", ".js">>]>>
    /\ imports = <<[path |-> <<"./", "UnionDecl", ".ts">>, names |-> <<"UnionDecl">>]>>

\* The lines the text of a namespace block is expected to have: the opening
\* line, the blocks of the scopes whose parent it is in the order of their
\* creation, its declarations in the order of their insertion, the closing
\* line.
RECURSIVE ExpectedBlock(_)
ExpectedBlock(s) ==
    LET nested == SelectSeq([i \in 1..Len(scopes) |-> i], LAMBDA c : scopes[c].parent = s) IN
    <<[line |-> "namespace", scope |-> scopes[s].name]>>
    \o Concat([n \in DOMAIN nested |-> ExpectedBlock(nested[n])])
    \o [d \in DOMAIN scopes[s].declarations |->
           [line |-> "declaration", value |-> scopes[s].declarations[d].name]]
    \o <<[line |-> "}"]>>

\* C16: the text of a written output file is the import lines, one for each
\* path of the import table with the names recorded for it, then the
\* declarations of the global scope in insertion order, then the blocks of
\* the top-level namespaces, each wrapping its nested blocks and then its own
\* declarations.
C16_OutputOrder ==
    phase \in {"written", "again"} =>
        LET global == scopes[GlobalScope].declarations
            top    == SelectSeq([i \in 1..Len(scopes) |-> i],
                                LAMBDA c : scopes[c].parent = GlobalScope)
        IN output.contents
             = [i \in DOMAIN imports |->
                  [line |-> "import", names |-> imports[i].names, from |-> imports[i].path]]
               \o [d \in DOMAIN global |-> [line |-> "declaration", value |-> global[d].name]]
               \o Concat([n \in DOMAIN top |-> ExpectedBlock(top[n])])

\* C16 witness: a file was written with an import line, a declaration of the
\* global scope, and a namespace block that holds a nested block and a
\* declaration of its own.
C16_Witness ==
    /\ phase = "written"
    /\ imports # <<>>
    /\ scopes[GlobalScope].declarations # <<>>
    /\ \E s \in DOMAIN scopes :
          /\ s # GlobalScope
          /\ scopes[s].declarations # <<>>
          /\ ChildScopes(scopes, s) # <<>>

C18_InstantiationsDeduplicated ==
    /\ \A i, j \in DOMAIN rendered :
          (rendered[i].kind = "reference" /\ rendered[j].kind = "reference") =>
              (program[i] = program[j] <=> rendered[i].declaration = rendered[j].declaration)
    /\ \A d, e \in DOMAIN typeToEmitEntity :
          typeToEmitEntity[d].type = typeToEmitEntity[e].type => d = e
    /\ \A i \in DOMAIN rendered :
          (program[i].base # "Record") =>
              /\ rendered[i].kind = "reference"
              /\ typeToEmitEntity[rendered[i].declaration].type = program[i]
              /\ typeToEmitEntity[rendered[i].declaration].name
                    = <<program[i].base>>
                      \o [a \in DOMAIN program[i].args |-> Capitalized(program[i].args[a])]
              /\ rendered[i].name = typeToEmitEntity[rendered[i].declaration].name

\* C18 witness: Template<int32> was used twice and Template<string> once;
\* there are the two Declarations TemplateInt32 and TemplateString, and both
\* uses of Template<int32> refer to TemplateInt32.
C18_Witness ==
    /\ program = <<[base |-> "Template", args |-> <<"int32">>],
                   [base |-> "Template", args |-> <<"string">>],
                   [base |-> "Template", args |-> <<"int32">>]>>
    /\ Len(rendered) = 3
    /\ Len(typeToEmitEntity) = 2
    /\ typeToEmitEntity[1].name = <<"Template", "Int32">>
    /\ typeToEmitEntity[2].name = <<"Template", "String">>
    /\ rendered[1].name = <<"Template", "Int32">>
    /\ rendered[3] = rendered[1]

\* C21: the file a run writes is named by the value of the option
\* "output-file", and "output.ts" when the option is not given, whichever
\* backend runs.
C21_OutputFileName ==
    phase = "written" =>
        output.written = (IF "output-file" \in DOMAIN options
                          THEN options["output-file"] ELSE "output.ts")

\* C22: a step that takes the run out of the type walk, that is the assembly
\* of the output by sourceFile, creates no Declaration and leaves the
\* declaration list of every scope as the walk finished it.
C22_DeclarationsFrozen ==
    [][(phase' # "emit") =>
          /\ Len(scopes') = Len(scopes)
          /\ \A s \in DOMAIN scopes :
                scopes'[s].declarations = scopes[s].declarations]_vars

\* C23: a member with a number or a string as value is written as
\* `name = <JSON of the value>`, and a member declared without a value as
\* `name = "name"`.
C23_EnumMemberValue ==
    \A i \in DOMAIN rendered :
        LET member == program[i] IN
        rendered[i] =
            CASE member.value.kind = "number" ->
                    <<member.name, "=", ToString(member.value.number)>>
              [] member.value.kind = "string" ->
                    <<member.name, "=", "\"", member.value.string, "\"">>
              [] OTHER ->
                    <<member.name, "=", "\"", member.name, "\"">>

\* C24: the import table of the source file has, for every reference it
\* resolved, an entry for the path of the target's file that contains the
\* name of the target, also when two targets live in the same file.
C24_ImportsHoldEveryName ==
    \A r \in DOMAIN references :
        \E i \in DOMAIN imports :
            /\ imports[i].path = ImportPath(references[r].path)
            /\ references[r].name \in SeqToSet(imports[i].names)

\* C25: every sub-registry a generated registry refers to is generated too:
\* the builder a builder function calls for a child scope is one of the
\* builder functions of the output, and a child scope named by a field of a
\* registry interface holds a registry interface of its own.
C25_ChildRegistriesGenerated ==
    phase = "written" =>
        /\ \A f \in DOMAIN output.handlerFunctions :
              \A c \in DOMAIN output.handlerFunctions[f].children :
                  \E g \in DOMAIN output.handlerFunctions :
                      output.handlerFunctions[g].name
                          = output.handlerFunctions[f].children[c].builder
        /\ \A s \in DOMAIN scopes :
              RegistriesIn(s) # {} =>
                  \A c \in DOMAIN ChildScopes(scopes, s) :
                      RegistriesIn(ChildScopes(scopes, s)[c]) # {}

\* C26: when the args parameter of a client operation is optional, every
\* read of a member of args in the generated invoker is behind a test that
\* args is present.
C26_OptionalArgsGuarded ==
    (backend = "fetch-client" /\ rendered # <<>> /\ rendered.argsOptional) =>
        \A r \in DOMAIN rendered.reads : rendered.reads[r].guarded

\* C27: the client invoker sends a request body exactly when the ClientArgs
\* type of the operation has a body member, and it has one exactly when the
\* operation has a @body parameter or a loose parameter.
C27_BodySentIffBodyMember ==
    (backend = "fetch-client" /\ rendered # <<>>) =>
        LET hasBodyMember == "{body: Body}" \in SeqToSet(rendered.clientArgs) IN
        /\ rendered.sendsBody <=> hasBodyMember
        /\ hasBodyMember <=>
              \E i \in DOMAIN operation.parameters :
                  operation.parameters[i].kind \in {"body", "other"}

\* The {data, statusCode} alternative expected for a variant: the object
\* operationReturnType builds for a model, and data with status 200 for a
\* variant of another kind.
ExpectedAlternative(variant) ==
    IF variant.kind = "Model" THEN ClientResponseObject(variant)
    ELSE <<"{", "data", ":">> \o EmitTypeReference("fetch-client", variant)
         \o <<";", "statusCode", ":", "200", ";", "}">>

\* C28: the client response type of an operation that returns a union has
\* one {data, statusCode} alternative for every variant, model or not, in
\* variant order, and is not empty.
C28_UnionResponseAlternatives ==
    (backend = "fetch-client" /\ rendered # <<>> /\ operation.returnType.kind = "Union") =>
        /\ rendered.responseBody # <<>>
        /\ rendered.responseBody
              = Concat([v \in DOMAIN operation.returnType.variants |->
                          <<"|">> \o ExpectedAlternative(operation.returnType.variants[v])])

\* C29: a second call of sourceFile on the same emitter returns the text the
\* first call returned, and after it no namespace scope holds more than one
\* registry declaration.
C29_SecondRenderingIdentical ==
    phase = "again" =>
        /\ output.again = output.first
        /\ \A s \in DOMAIN scopes : Cardinality(RegistriesIn(s)) <= 1

\* C30: a request issued through a registry, nested or root field, carries
\* the default headers given to the root client builder, then the headers of
\* the call, then the content type: the headers do not depend on the
\* registry the operation is called through.
C30_DefaultOptionsEverywhere ==
    rendered # <<>> =>
        /\ rendered.headers
              = RequestHeaders("root field", operation.defaultOptions, operation.options)
        /\ \A h \in DOMAIN operation.defaultOptions : h \in DOMAIN rendered.headers

====
